---- MODULE Spec2Model ----
(***************************************************************************)
(* A model of docs-rag-mcp: the session transport multiplexer of           *)
(* src/server/mcp.ts (the /mcp, /sse and /messages handlers, the close     *)
(* handlers and the SIGINT sweep over the `transports` map) and the search *)
(* tool handlers of the same file.                                         *)
(*                                                                         *)
(* Handlers are asynchronous functions on one event loop: a handler runs   *)
(* without interleaving up to an `await`, and any other handler may run    *)
(* while it is suspended there.  One action of the model is one such run.  *)
(* The MCP SDK's transports are the environment: what the handlers rely on *)
(* (a Streamable HTTP transport mints its id while it handles the          *)
(* initialize request and calls onsessioninitialized; close() calls        *)
(* onclose; an SSE transport has its id from its constructor and its       *)
(* close() ends the response, whose 'close' event follows) is stated at    *)
(* the action that uses it.                                                *)
(***************************************************************************)
EXTENDS Integers, Sequences, FiniteSets, TLC

\* Transport objects constructed in one run of the process.
MaxTransports == 2
\* Requests suspended inside the transports at the same time.
MaxInflight == 1
\* Candidates the similarity search of one call returns (its `limit`), and
\* entries of a rerank reply.
MaxCands == 2
\* Distinct relevance scores of a rerank reply.
MaxScore == 2
\* Sentences of a text given to chunkText.
MaxSentences == 3
\* Files under the documentation root.
MaxFiles == 2
\* Runs of the indexing script, one after the other.
MaxRuns == 2
\* Chunks of one section in the collection; more than one page of a scroll.
MaxSectionChunks == 11
\* The count a call of start-notification-stream asks for.
MaxCount == 2
\* Notifications one call is followed for; more than the documented 100.
MaxAttempts == 101

\* The value of a request's session id when it carries none (undefined or '').
NoId == 0
\* A request session id that names a property every object literal inherits
\* ("constructor", "toString", ...): transports[ProtoKey] is a function.
ProtoKey == -1

Slots == 1..MaxTransports
\* Every transport mints at most one session id.
Ids == 1..MaxTransports
\* The session ids a request can carry.
ReqIds == Ids \cup {NoId, ProtoKey}
Methods == {"GET", "POST", "DELETE"}
\* The requests of /mcp by method and by whether the body is an initialize
\* request: isInitializeRequest(req.body) is evaluated for a POST only.
Requests == {r \in Methods \X BOOLEAN : r[2] => r[1] = "POST"}

VARIABLES
    transports,  \* the session map: id -> slot of the transport, 0 = no entry
    tr,          \* the transport objects: kind, sessionId (0 = undefined), state
    nextId,      \* the ids randomUUID has given out so far, as a counter
    inflight,    \* per transport, the requests suspended inside it
    delPending,  \* per transport, a DELETE routed to it whose close() has not run
    last,        \* what the last handler run answered
    evicted,     \* history: the ids deleted from the map
    sweep,       \* the SIGINT handler's position
    srch,        \* one call of the search tool
    chk,         \* one call of chunkText: its input and its result
    idx,         \* one run of the indexing script, and the vector store
    sect,        \* one read of the section resource
    ntf,         \* one call of start-notification-stream
    leg          \* the app of main(): its map, its handlers, the shared server

vars == <<transports, tr, nextId, inflight, delPending, last, evicted,
          sweep, srch, chk, idx, sect, ntf, leg>>

\* What the handlers of the session map leave alone.
toolVars == <<srch, chk, idx, sect, ntf, leg>>

sessVars == <<transports, tr, nextId, inflight, delPending, last, evicted,
              sweep>>

NoEvent == [ep |-> "none", hdr |-> NoId, res |-> "-"]

FreeTransport == [kind |-> "none", sid |-> 0, st |-> "free"]

SweepIdle == [pc |-> "idle", todo |-> {}, cur |-> 0, ok |-> TRUE,
              start |-> {}, tried |-> {}, failed |-> {}]

\* The rerank provider was not called.
NoReply == [status |-> "none", results |-> <<>>]

\* The response of a search call that has not returned.
NoOut == [isError |-> FALSE, items |-> <<>>]

\* No text was given to chunkText.
ChkIdle == [sentences |-> <<>>, chunks |-> <<>>, returned |-> FALSE]

\* The points of the collection by id; an id is a file and a chunk index
\* (`${filePath}-${i}`), NoPoint stands for no point with that id.
NoPoint == [content |-> <<>>, path |-> 0, lastUpdated |-> 0]

\* The indexing script before its first run; the vector store is empty.
IdxIdle == [pc |-> "idle", mode |-> "file", files |-> <<>>, k |-> 0, i |-> 0,
            vectors |-> 0, now |-> 0, exists |-> FALSE, points |-> <<>>,
            getResult |-> "none", createIssued |-> 0, createArgs |-> <<>>,
            ensured |-> FALSE, upserts |-> 0, indexed |-> {},
            upsertFailed |-> {}, hist |-> <<>>, snap |-> <<>>]

\* The section resource before a read; index is the collection, the number
\* of chunks it holds by metadata.section.
SectIdle == [pc |-> "idle", handler |-> "getServer", pathname |-> <<>>,
             pathSection |-> "", index |-> <<>>, isError |-> FALSE,
             docs |-> <<>>]

SrchIdle == [pc |-> "idle", handler |-> "getServer", key |-> FALSE,
             found |-> FALSE, results |-> <<>>, reply |-> NoReply,
             embedCalls |-> 0, storeCalls |-> 0, rerankCalls |-> 0,
             out |-> NoOut]

\* start-notification-stream before a call.
NtfIdle == [pc |-> "idle", count |-> 0, counter |-> 0, closed |-> FALSE,
            late |-> FALSE]

\* The app of main() after app.listen: no session, the shared server
\* connected to nothing, no request handled yet.
LegIdle == [keys |-> {}, nextId |-> 1, connected |-> {}, https |-> 0,
            ran |-> "none", handed |-> FALSE, responded |-> FALSE]

\* const transports: Record<string, ...> = {}
SessInit ==
    /\ transports = [i \in Ids |-> 0]
    /\ tr = [s \in Slots |-> FreeTransport]
    /\ nextId = 1
    /\ inflight = [s \in Slots |-> 0]
    /\ delPending = [s \in Slots |-> FALSE]
    /\ last = NoEvent
    /\ evicted = {}
    /\ sweep = SweepIdle

Running == sweep.pc # "exited"

\* transports[sessionId]: the kind of what the lookup returns; "none" is
\* undefined, "proto" an inherited property (truthy, no transport).
Lookup(id) ==
    IF id = ProtoKey THEN "proto"
    ELSE IF id \in Ids /\ transports[id] # 0 THEN tr[transports[id]].kind
    ELSE "none"

\* A mutant: randomUUID giving out the same id again.
FreshIdReused == IF nextId > 1 THEN 1 ELSE nextId

\* sessionIdGenerator: () => randomUUID(): an id never given out before.
FreshId == nextId

FreeSlots == {s \in Slots : tr[s].st = "free"}
NewSlot == CHOOSE s \in FreeSlots : \A t \in FreeSlots : s <= t

\* for (const sessionId in transports) does not have to visit a key added
\* while the loop is suspended: both outcomes.
SweepAfterAdd(id) ==
    IF sweep.pc \in {"loop", "await"}
    THEN {sweep, [sweep EXCEPT !.todo = @ \cup {id}]}
    ELSE {sweep}

\* A mutant: the close handler reading the id of the transport created last
\* (a `transport` shared by all requests) instead of its own.
OnCloseSharedTransport(s) ==
    LET made == {t \in Slots : tr[t].sid # 0}
        sid == IF made = {} THEN 0
               ELSE tr[CHOOSE t \in made : \A u \in made : tr[u].sid <= tr[t].sid].sid
    IN IF sid # 0 /\ transports[sid] # 0
       THEN [transports EXCEPT ![sid] = 0]
       ELSE transports

\* A mutant: the close handler logging the close and leaving the entry.
OnCloseKeepsEntry(s) == transports

\* transport.onclose: the map after the handler ran for transport s.
OnClose(s) ==
    LET sid == tr[s].sid
    IN IF sid # 0 /\ transports[sid] # 0
       THEN [transports EXCEPT ![sid] = 0]
       ELSE transports

\* The ids a step from map m to map n deleted.
Removed(m, n) == {i \in Ids : m[i] # 0 /\ n[i] = 0}

\* A mutant: the 'close' listener removing the newest entry when its own is
\* not there (a registry kept as a list: splice(indexOf(x), 1) with x absent).
OnResCloseSplice(s) ==
    LET keys == {i \in Ids : transports[i] # 0}
    IN IF transports[tr[s].sid] = s THEN [transports EXCEPT ![tr[s].sid] = 0]
       ELSE IF keys = {} THEN transports
       ELSE [transports EXCEPT ![CHOOSE i \in keys : \A j \in keys : j <= i] = 0]

\* res.on("close", () => { delete transports[transport.sessionId]; })
OnResClose(s) == [transports EXCEPT ![tr[s].sid] = 0]

\* The answer of a handler run: the endpoint, the session id the request
\* carried, and what was done with it.
Event(ep, hdr, res) == [ep |-> ep, hdr |-> hdr, res |-> res]

\* A mutant: /mcp reusing whatever transport the id is bound to.
McpBranchAnyKind(method, hdr, isInit) ==
    IF hdr # NoId /\ Lookup(hdr) \in {"http", "sse"} THEN "reuse"
    ELSE IF hdr # NoId /\ Lookup(hdr) # "none" THEN "reject_transport"
    ELSE IF hdr = NoId /\ method = "POST" /\ isInit THEN "create"
    ELSE "reject_session"

\* A mutant: /mcp creating a session for every initialize POST, whatever
\* session id it carries.
McpBranchInitAnyId(method, hdr, isInit) ==
    IF hdr # NoId /\ Lookup(hdr) # "none"
    THEN IF Lookup(hdr) = "http" THEN "reuse" ELSE "reject_transport"
    ELSE IF method = "POST" /\ isInit THEN "create"
    ELSE "reject_session"

\* A mutant: /mcp creating a session for every request without a session id.
McpBranchAnyMethod(method, hdr, isInit) ==
    IF hdr # NoId /\ Lookup(hdr) # "none"
    THEN IF Lookup(hdr) = "http" THEN "reuse" ELSE "reject_transport"
    ELSE IF hdr = NoId THEN "create"
    ELSE "reject_session"

\* app.all('/mcp'): which branch the handler takes.
McpBranch(method, hdr, isInit) ==
    IF hdr # NoId /\ Lookup(hdr) # "none"
    THEN IF Lookup(hdr) = "http" THEN "reuse" ELSE "reject_transport"
    ELSE IF hdr = NoId /\ method = "POST" /\ isInit THEN "create"
    ELSE "reject_session"

\* A mutant: /messages using whatever transport the id is bound to.
MessagesBranchAnyKind(q) ==
    IF Lookup(q) \in {"sse", "http"} THEN "reuse" ELSE "reject_transport"

\* app.post("/messages"): which branch the handler takes. The test of
\* `transport` comes after the instanceof test has returned for everything
\* that is not an SSEServerTransport.
MessagesBranch(q) ==
    LET existingTransport == Lookup(q)
    IN IF existingTransport = "sse"
       THEN IF existingTransport # "none" THEN "reuse" ELSE "no_transport"
       ELSE "reject_transport"

\* The requests suspended in all transports.
RECURSIVE SumUpTo(_, _)
SumUpTo(f, n) == IF n = 0 THEN 0 ELSE f[n] + SumUpTo(f, n - 1)
InflightTotal == SumUpTo(inflight, MaxTransports)

\* The transport a request is handed to.
Target(id) == IF id \in Ids THEN transports[id] ELSE 0

\* What app.all('/mcp') answers, or does with the request.
McpAnswer(method, hdr, isInit) ==
    LET b == McpBranch(method, hdr, isInit)
    IN CASE b = "reuse" -> "routed"
         [] b = "create" -> "connecting"
         [] b = "reject_transport" -> "400_transport"
         [] OTHER -> "400_session"

\* app.all('/mcp'), up to its first await. A reused transport handles the
\* request: a DELETE makes it close itself, anything else it answers, at once
\* or after a suspension (a tool call waiting for a provider).
McpRequestDo(method, hdr, isInit) ==
    /\ Running
    /\ LET b == McpBranch(method, hdr, isInit)
           s == Target(hdr)
       IN CASE b = "reuse" ->
                 /\ IF method = "DELETE"
                    THEN /\ delPending' = [delPending EXCEPT ![s] = TRUE]
                         /\ UNCHANGED inflight
                    ELSE /\ \/ UNCHANGED inflight
                            \/ /\ InflightTotal < MaxInflight
                               /\ inflight' = [inflight EXCEPT ![s] = @ + 1]
                         /\ UNCHANGED delPending
                 /\ UNCHANGED <<transports, tr, nextId, evicted, sweep>>
            [] b = "create" ->
                 /\ FreeSlots # {}
                 /\ tr' = [tr EXCEPT ![NewSlot] = [kind |-> "http", sid |-> 0, st |-> "new"]]
                 /\ UNCHANGED <<transports, nextId, inflight, delPending, evicted, sweep>>
            [] OTHER ->
                 UNCHANGED <<transports, tr, nextId, inflight, delPending, evicted, sweep>>
    /\ UNCHANGED toolVars

McpRequest(method, hdr, isInit) ==
    /\ last' = Event("mcp", hdr, McpAnswer(method, hdr, isInit))
    /\ McpRequestDo(method, hdr, isInit)

\* app.all('/mcp') after `await server.connect(transport)`: the new transport
\* handles the initialize request. When it accepts it, it mints its session id
\* and calls onsessioninitialized, which stores it; when the handling fails
\* first (or connect threw), no id is assigned and the request is answered
\* with an error.
McpInitResumeDo(s, ok) ==
    /\ Running
    /\ tr[s].kind = "http" /\ tr[s].st = "new"
    /\ IF ok
       THEN /\ nextId <= MaxTransports
            /\ tr' = [tr EXCEPT ![s] = [kind |-> "http", sid |-> FreshId, st |-> "open"]]
            /\ transports' = [transports EXCEPT ![FreshId] = s]
            /\ nextId' = nextId + 1
            /\ sweep' \in SweepAfterAdd(FreshId)
       ELSE /\ tr' = [tr EXCEPT ![s].st = "failed"]
            /\ UNCHANGED <<transports, nextId, sweep>>
    /\ UNCHANGED <<inflight, delPending, evicted, toolVars>>

McpInitResume(s, ok) ==
    /\ last' = Event("mcp_init", NoId, IF ok THEN "initialized" ELSE "error")
    /\ McpInitResumeDo(s, ok)

\* app.get('/sse'): the transport has its id from its constructor.
SseConnectDo ==
    /\ Running
    /\ FreeSlots # {}
    /\ nextId <= MaxTransports
    /\ tr' = [tr EXCEPT ![NewSlot] = [kind |-> "sse", sid |-> FreshId, st |-> "open"]]
    /\ transports' = [transports EXCEPT ![FreshId] = NewSlot]
    /\ nextId' = nextId + 1
    /\ sweep' \in SweepAfterAdd(FreshId)
    /\ UNCHANGED <<inflight, delPending, evicted, toolVars>>

SseConnect == last' = Event("sse", NoId, "connected") /\ SseConnectDo

\* What app.post("/messages") answers, or does with the request.
MessagesAnswer(q) ==
    LET b == MessagesBranch(q)
    IN CASE b = "reuse" -> "routed"
         [] b = "no_transport" -> "400_no_transport"
         [] OTHER -> "400_transport"

\* app.post("/messages"), up to its await.
MessagesPostDo(q) ==
    /\ Running
    /\ IF MessagesBranch(q) = "reuse"
       THEN \/ UNCHANGED inflight
            \/ /\ InflightTotal < MaxInflight
               /\ inflight' = [inflight EXCEPT ![Target(q)] = @ + 1]
       ELSE UNCHANGED inflight
    /\ UNCHANGED <<transports, tr, nextId, delPending, evicted, sweep, toolVars>>

MessagesPost(q) == last' = Event("messages", q, MessagesAnswer(q)) /\ MessagesPostDo(q)

\* A suspended request is answered by its transport.
RespondDo(s) ==
    /\ Running
    /\ inflight[s] > 0
    /\ inflight' = [inflight EXCEPT ![s] = @ - 1]
    /\ UNCHANGED <<transports, tr, nextId, delPending, evicted, sweep, toolVars>>

Respond(s) == last' = Event("response", tr[s].sid, "-") /\ RespondDo(s)

\* The 'close' event of the response of GET /sse: the client went away, or the
\* transport's close() ended the response.
ResCloseDo(s) ==
    /\ Running
    /\ tr[s].kind = "sse" /\ tr[s].st \in {"open", "ending"}
    /\ transports' = OnResClose(s)
    /\ evicted' = evicted \cup Removed(transports, transports')
    /\ tr' = [tr EXCEPT ![s].st = "closed"]
    /\ UNCHANGED <<nextId, inflight, delPending, sweep, toolVars>>

ResClose(s) == last' = Event("conn_close", tr[s].sid, "-") /\ ResCloseDo(s)

\* close() of an SSE transport, called outside the sweep (the server closing
\* the connection): it ends the response; the map is not touched here.
SseTransportCloseDo(s) ==
    /\ Running
    /\ tr[s].kind = "sse" /\ tr[s].st = "open"
    /\ tr' = [tr EXCEPT ![s].st = "ending"]
    /\ UNCHANGED <<transports, nextId, inflight, delPending, evicted, sweep, toolVars>>

SseTransportClose(s) == last' = Event("close", tr[s].sid, "-") /\ SseTransportCloseDo(s)

\* The close() a routed DELETE asked for: the transport calls onclose.
DeleteCloseDo(s) ==
    /\ Running
    /\ delPending[s]
    /\ delPending' = [delPending EXCEPT ![s] = FALSE]
    /\ transports' = OnClose(s)
    /\ evicted' = evicted \cup Removed(transports, transports')
    /\ tr' = [tr EXCEPT ![s].st = "closed"]
    /\ UNCHANGED <<nextId, inflight, sweep, toolVars>>

DeleteClose(s) == last' = Event("close", tr[s].sid, "-") /\ DeleteCloseDo(s)

\* close() of a Streamable HTTP transport called outside a DELETE and outside
\* the sweep, also on one that is closed already or never got an id: the
\* transport calls onclose each time.
HttpTransportCloseDo(s) ==
    /\ Running
    /\ tr[s].kind = "http" /\ tr[s].st \in {"open", "closed", "failed"}
    /\ transports' = OnClose(s)
    /\ evicted' = evicted \cup Removed(transports, transports')
    /\ tr' = [tr EXCEPT ![s].st = IF @ = "failed" THEN "failed" ELSE "closed"]
    /\ UNCHANGED <<nextId, inflight, delPending, sweep, toolVars>>

HttpTransportClose(s) == last' = Event("close", tr[s].sid, "-") /\ HttpTransportCloseDo(s)

\* A connection of a Streamable HTTP session closes (its GET stream, the
\* response of a POST). No handler of /mcp listens for it.
HttpConnClose(s) ==
    /\ Running
    /\ tr[s].kind = "http" /\ tr[s].st = "open"
    /\ last' = Event("conn_close", tr[s].sid, "-")
    /\ UNCHANGED <<transports, tr, nextId, inflight, delPending, evicted, sweep, toolVars>>

\* The keys of the map, which the for-in loop visits in insertion order: ids
\* are stored when they are minted, so in increasing order.
Keys == {i \in Ids : transports[i] # 0}
Live(todo) == {i \in todo : transports[i] # 0}
First(S) == CHOOSE i \in S : \A j \in S : i <= j

\* delete transports[sessionId] of the sweep.
SweepDelete(id) == [transports EXCEPT ![id] = 0]

\* A mutant: one try/catch around the whole loop, so that the first failure
\* ends the sweep.
AfterCloseErrorEndsLoop(sw) ==
    [sw EXCEPT !.pc = "loop", !.todo = {}, !.failed = @ \cup {sw.cur}, !.cur = 0]

\* catch (error) { console.error(...) } inside the loop: on to the next key.
AfterCloseError(sw) ==
    [sw EXCEPT !.pc = "loop", !.failed = @ \cup {sw.cur}, !.cur = 0]

\* process.on('SIGINT'): the loop starts over the keys the map has now.
Sigint ==
    /\ sweep.pc = "idle"
    /\ sweep' = [sweep EXCEPT !.pc = "loop", !.todo = Keys, !.start = Keys]
    /\ UNCHANGED <<transports, tr, nextId, inflight, delPending, evicted, last, toolVars>>

\* One iteration up to its await: the loop takes the next key that is still in
\* the map (a key deleted before it is reached is not visited) and calls
\* close() on its transport. close() of a Streamable HTTP transport calls
\* onclose; close() of an SSE transport ends the response. A close() that
\* throws has closed nothing.
SweepClose(ok) ==
    /\ sweep.pc = "loop"
    /\ Live(sweep.todo) # {}
    /\ LET id == First(Live(sweep.todo))
           s == transports[id]
       IN /\ sweep' = [sweep EXCEPT !.pc = "await", !.cur = id, !.ok = ok,
                                    !.todo = {j \in @ : j > id},
                                    !.tried = @ \cup {id}]
          /\ IF ok /\ tr[s].kind = "http"
             THEN /\ transports' = OnClose(s)
                  /\ tr' = [tr EXCEPT ![s].st = "closed"]
             ELSE IF ok /\ tr[s].st = "open"
             THEN /\ tr' = [tr EXCEPT ![s].st = "ending"]
                  /\ UNCHANGED transports
             ELSE UNCHANGED <<transports, tr>>
          /\ evicted' = evicted \cup Removed(transports, transports')
    /\ UNCHANGED <<nextId, inflight, delPending, last, toolVars>>

\* The iteration after its await: the entry is deleted, or the error logged.
SweepResume ==
    /\ sweep.pc = "await"
    /\ IF sweep.ok
       THEN /\ transports' = SweepDelete(sweep.cur)
            /\ sweep' = [sweep EXCEPT !.pc = "loop", !.cur = 0]
       ELSE /\ sweep' = AfterCloseError(sweep)
            /\ UNCHANGED transports
    /\ evicted' = evicted \cup Removed(transports, transports')
    /\ UNCHANGED <<tr, nextId, inflight, delPending, last, toolVars>>

\* The loop is over: process.exit(0).
SweepExit ==
    /\ sweep.pc = "loop"
    /\ Live(sweep.todo) = {}
    /\ sweep' = [sweep EXCEPT !.pc = "exited", !.todo = {}]
    /\ UNCHANGED <<transports, tr, nextId, inflight, delPending, evicted, last, toolVars>>

(***************************************************************************)
(* The search tool. The file registers it twice: on the server of the      *)
(* first part of the file ("legacy") and on the servers getServer() makes. *)
(* A handler is suspended at each provider call; one action is one run     *)
(* between two of them.                                                    *)
(***************************************************************************)

Handlers == {"legacy", "getServer"}
Docs == 1..MaxCands

\* The answers of qdrant.search: distinct points, the most similar first.
Candidates ==
    {c \in UNION {[1..n -> Docs] : n \in 0..MaxCands} :
        \A i, j \in DOMAIN c : i # j => c[i] # c[j]}

\* The answers to the rerank request: none (fetch rejects), a status that is
\* not OK, a body that is not the JSON expected, or a list of results whose
\* index may be any number (index MaxCands is never a candidate's).
ReplyItems == [index : 0..MaxCands, relevance_score : 1..MaxScore]
Replies ==
    {[status |-> st, results |-> <<>>] : st \in {"unreachable", "notok", "badjson"}}
    \cup {[status |-> "ok", results |-> l] :
             l \in UNION {[1..n -> ReplyItems] : n \in 0..MaxCands}}

\* const results = searchResults.map(...): one entry per point, in order,
\* without a rerankScore (0).
Results(searchResults) ==
    [k \in DOMAIN searchResults |-> [doc |-> searchResults[k], rerankScore |-> 0]]

\* jinaResponse.results.map(r => ({...results[r.index], rerankScore: ...})):
\* results[r.index] is undefined for an index that is no candidate's, and the
\* entry then has a rerankScore and nothing else (doc 0).
Mapped(results, jinaResults) ==
    [k \in DOMAIN jinaResults |->
        [doc |-> IF jinaResults[k].index < Len(results)
                 THEN results[jinaResults[k].index + 1].doc
                 ELSE 0,
         rerankScore |-> jinaResults[k].relevance_score]]

\* .sort((a, b) => b.rerankScore - a.rerankScore): descending and stable.
InsertDesc(sorted, x) ==
    LET before == {k \in DOMAIN sorted : sorted[k].rerankScore >= x.rerankScore}
        n == Cardinality(before)
    IN SubSeq(sorted, 1, n) \o <<x>> \o SubSeq(sorted, n + 1, Len(sorted))

RECURSIVE SortDesc(_)
SortDesc(s) ==
    IF s = <<>> THEN <<>>
    ELSE InsertDesc(SortDesc(SubSeq(s, 1, Len(s) - 1)), s[Len(s)])

\* A mutant: the catch answering with an empty result list and no flag.
ErrorOutSilent == [isError |-> FALSE, items |-> <<>>]

\* The catch of the handler: an error-flagged response with a message.
ErrorOut == [isError |-> TRUE, items |-> <<>>]

\* return { content: [...reranked.map(r => `### ${r.metadata.title} ...`)] }:
\* reading r.metadata.title of an entry made from an undefined candidate
\* throws, and the handler's catch answers.
Answer(reranked) ==
    IF \E k \in DOMAIN reranked : reranked[k].doc = 0
    THEN ErrorOut
    ELSE [isError |-> FALSE, items |-> reranked]

\* Whether the handler sends the rerank request, "throw" when it throws
\* instead: the first handler requires the key, the second one reranks when
\* it has the key and more than one candidate.
RerankDecision(handler, key, results) ==
    IF handler = "legacy"
    THEN IF key THEN "call" ELSE "throw"
    ELSE IF key /\ Len(results) > 1 THEN "call" ELSE "skip"

\* The rerank request failed (fetch rejected, status not OK, body unreadable):
\* the first handler throws to its catch, the second one logs a warning and
\* keeps `reranked = results`.
OnRerankFailure(handler, results) ==
    IF handler = "legacy" THEN ErrorOut ELSE Answer(results)

\* A tools/call of the search tool reaches a handler, which calls
\* openai.embeddings.create. `key` is process.env.JINA_API_KEY.
SearchStart(h, key) ==
    /\ srch.pc \in {"idle", "done"}
    /\ srch' = [SrchIdle EXCEPT !.pc = "embed", !.handler = h, !.key = key,
                                !.embedCalls = 1]
    /\ UNCHANGED <<sessVars, chk, idx, sect, ntf, leg>>

Finish(out) == [srch EXCEPT !.pc = "done", !.out = out]

\* The embedding call returns or throws; the handler calls qdrant.search.
EmbedReturn(ok) ==
    /\ srch.pc = "embed"
    /\ srch' = IF ok
               THEN [srch EXCEPT !.pc = "store", !.storeCalls = @ + 1]
               ELSE Finish(ErrorOut)
    /\ UNCHANGED <<sessVars, chk, idx, sect, ntf, leg>>

\* qdrant.search returns or throws; the handler formats the candidates and
\* sends the rerank request, or answers.
StoreReturn(ok, searchResults) ==
    /\ srch.pc = "store"
    /\ LET results == Results(searchResults)
           d == RerankDecision(srch.handler, srch.key, results)
       IN srch' =
            IF ~ok THEN Finish(ErrorOut)
            ELSE IF d = "call"
            THEN [srch EXCEPT !.pc = "rerank", !.found = TRUE, !.results = results,
                              !.rerankCalls = @ + 1]
            ELSE [srch EXCEPT !.pc = "done", !.found = TRUE, !.results = results,
                              !.out = IF d = "throw" THEN ErrorOut ELSE Answer(results)]
    /\ UNCHANGED <<sessVars, chk, idx, sect, ntf, leg>>

\* The rerank request is answered (with response.json() read when the status
\* is OK); the handler maps, sorts and answers.
RerankReturn(r) ==
    /\ srch.pc = "rerank"
    /\ srch' = [srch EXCEPT
                  !.pc = "done",
                  !.reply = r,
                  !.out = IF r.status = "ok"
                          THEN Answer(SortDesc(Mapped(srch.results, r.results)))
                          ELSE OnRerankFailure(srch.handler, srch.results)]
    /\ UNCHANGED <<sessVars, chk, idx, sect, ntf, leg>>

Init ==
    /\ SessInit
    /\ srch = SrchIdle
    /\ chk = ChkIdle
    /\ idx = IdxIdle
    /\ sect = SectIdle
    /\ ntf = NtfIdle
    /\ leg = LegIdle

\* The multiplexer while the process runs, every answer observed in `last`.
Next ==
    \/ \E r \in Requests, h \in ReqIds : McpRequest(r[1], h, r[2])
    \/ \E s \in Slots, ok \in BOOLEAN : McpInitResume(s, ok)
    \/ SseConnect
    \/ \E q \in ReqIds : MessagesPost(q)
    \/ \E s \in Slots : Respond(s)
    \/ \E s \in Slots : ResClose(s)
    \/ \E s \in Slots : SseTransportClose(s)
    \/ \E s \in Slots : DeleteClose(s)
    \/ \E s \in Slots : HttpTransportClose(s)
    \/ \E s \in Slots : HttpConnClose(s)

Spec == Init /\ [][Next]_vars

(***************************************************************************)
(* The tool start-notification-stream of getServer(): a loop of            *)
(* sendNotification and sleep. The session of the call can close while the *)
(* loop sleeps or sends; what sendNotification does then is the SDK's       *)
(* affair, and either way the catch leaves the loop running.               *)
(***************************************************************************)

Counts == 0..MaxCount

\* 'Number of notifications to send (0 for 100)'
DocumentedCount == 100

\* while (count === 0 || counter < count)
LoopGoesOn(count, counter) == count = 0 \/ counter < count

\* The head of the loop from `nt`: counter++ and the next sendNotification,
\* or the return of the result.
LoopHead(nt) ==
    IF LoopGoesOn(nt.count, nt.counter)
    THEN [nt EXCEPT !.pc = "send", !.counter = @ + 1, !.late = @ \/ nt.closed]
    ELSE [nt EXCEPT !.pc = "done"]

NtfFrame == UNCHANGED <<sessVars, srch, chk, idx, sect, leg>>

\* tools/call of start-notification-stream with `count`.
StartStream(count) ==
    /\ ntf.pc \in {"idle", "done"}
    /\ count \in Counts
    /\ ntf' = LoopHead([NtfIdle EXCEPT !.count = count])
    /\ NtfFrame

\* sendNotification resolves, or rejects into the catch; the handler sleeps.
SendReturn(ok) ==
    /\ ntf.pc = "send"
    /\ ntf' = [ntf EXCEPT !.pc = "sleep"]
    /\ NtfFrame

\* The timer of sleep(interval) fires: back to the head of the loop.
Wake ==
    /\ ntf.pc = "sleep"
    /\ ntf.counter < MaxAttempts
    /\ ntf' = LoopHead(ntf)
    /\ NtfFrame

\* The session the call came in on is closed (DELETE, connection closed,
\* transport closed) while the handler is suspended.
SessionClosed ==
    /\ ntf.pc \in {"send", "sleep"}
    /\ ~ntf.closed
    /\ ntf' = [ntf EXCEPT !.closed = TRUE]
    /\ NtfFrame

NotifyNext ==
    \/ \E count \in Counts : StartStream(count)
    \/ \E ok \in BOOLEAN : SendReturn(ok)
    \/ Wake
    \/ SessionClosed

NotifySpec == Init /\ [][NotifyNext]_vars

(***************************************************************************)
(* The app of main(): GET /sse, POST /mcp and POST /messages over a map of *)
(* SSE transports, every transport connected to the one McpServer of the   *)
(* module (`server`). leg.connected are the SSE transports connected to    *)
(* it, by session id, leg.https counts the Streamable HTTP transports      *)
(* connected to it. `ran` is the handler that ran last, with whether it    *)
(* handed the request to a transport and whether it sent a response.       *)
(***************************************************************************)

LegFrame == UNCHANGED <<sessVars, srch, chk, idx, sect, ntf>>

\* transports[sessionId] of main(): an SSE transport, an inherited property
\* of the object literal, or undefined.
LegLookup(q) ==
    IF q = ProtoKey THEN "proto"
    ELSE IF q \in leg.keys THEN "sse"
    ELSE "none"

\* app.get("/sse"): a new SSE transport is stored under its id and the shared
\* server is connected to it; connect starts the event stream, or throws.
LegSse(ok) ==
    /\ leg.nextId <= MaxTransports
    /\ leg' = [leg EXCEPT !.keys = @ \cup {leg.nextId},
                          !.nextId = @ + 1,
                          !.connected = IF ok THEN @ \cup {leg.nextId} ELSE @,
                          !.ran = "sse", !.handed = FALSE, !.responded = ok]
    /\ LegFrame

\* res.on("close"): the entry is deleted; the closed transport is connected
\* to nothing any more.
LegResClose(id) ==
    /\ id \in leg.keys
    /\ leg' = [leg EXCEPT !.keys = @ \ {id}, !.connected = @ \ {id},
                          !.ran = "close", !.handed = FALSE, !.responded = FALSE]
    /\ LegFrame

\* app.post("/mcp"): a new Streamable HTTP transport, the shared server
\* connected to it, and the handler returns: the request is not passed to
\* the transport and `res` is not used.
LegMcpPost(ok) ==
    /\ leg.https < MaxTransports
    /\ leg' = [leg EXCEPT !.https = IF ok THEN @ + 1 ELSE @,
                          !.ran = "mcp", !.handed = FALSE, !.responded = FALSE]
    /\ LegFrame

\* app.post("/messages"): handlePostMessage of the transport found, 400 when
\* none is found; an inherited property is truthy and has no
\* handlePostMessage, so the call throws out of the handler.
LegMessages(q) ==
    /\ q \in ReqIds
    /\ leg' = [leg EXCEPT !.ran = "messages",
                          !.handed = LegLookup(q) = "sse",
                          !.responded = LegLookup(q) = "none"]
    /\ LegFrame

LegacyNext ==
    \/ \E ok \in BOOLEAN : LegSse(ok)
    \/ \E id \in Ids : LegResClose(id)
    \/ \E ok \in BOOLEAN : LegMcpPost(ok)
    \/ \E q \in ReqIds : LegMessages(q)

LegacySpec == Init /\ [][LegacyNext]_vars

\* The multiplexer with every routed request answered at once: requests
\* suspended inside a transport take no part in closing a session.
CloseNext ==
    \/ \E r \in Requests, h \in ReqIds :
           McpRequest(r[1], h, r[2]) /\ UNCHANGED inflight
    \/ \E s \in Slots, ok \in BOOLEAN : McpInitResume(s, ok)
    \/ SseConnect
    \/ \E q \in ReqIds : MessagesPost(q) /\ UNCHANGED inflight
    \/ \E s \in Slots : ResClose(s)
    \/ \E s \in Slots : SseTransportClose(s)
    \/ \E s \in Slots : DeleteClose(s)
    \/ \E s \in Slots : HttpTransportClose(s)
    \/ \E s \in Slots : HttpConnClose(s)

\* What the event loop guarantees: a close() that was called runs, and the
\* 'close' event of an ended response is delivered.
FairSpec ==
    /\ Init /\ [][CloseNext]_vars
    /\ WF_vars(\E s \in Slots : DeleteClose(s))
    /\ WF_vars(\E s \in Slots : tr[s].st = "ending" /\ ResClose(s))

\* The multiplexer with the shutdown sweep: the same handlers, initialize,
\* route and close events interleaved with the sweep at its awaits. The
\* answers are not observed (`last` stays as it is) and a routed request is
\* answered at once.
ShutdownNext ==
    \/ \E r \in Requests, h \in ReqIds :
           McpRequestDo(r[1], h, r[2]) /\ UNCHANGED <<last, inflight>>
    \/ \E s \in Slots, ok \in BOOLEAN : McpInitResumeDo(s, ok) /\ UNCHANGED last
    \/ SseConnectDo /\ UNCHANGED last
    \/ \E q \in ReqIds : MessagesPostDo(q) /\ UNCHANGED <<last, inflight>>
    \/ \E s \in Slots : ResCloseDo(s) /\ UNCHANGED last
    \/ \E s \in Slots : SseTransportCloseDo(s) /\ UNCHANGED last
    \/ \E s \in Slots : DeleteCloseDo(s) /\ UNCHANGED last
    \/ \E s \in Slots : HttpTransportCloseDo(s) /\ UNCHANGED last
    \/ Sigint
    \/ \E ok \in BOOLEAN : SweepClose(ok)
    \/ SweepResume
    \/ SweepExit

ShutdownSpec == Init /\ [][ShutdownNext]_vars

\* The sweep is an async function on the event loop: it is resumed after each
\* await, and a close() that was called runs.
FairShutdownSpec ==
    /\ ShutdownSpec
    /\ WF_vars(\E ok \in BOOLEAN : SweepClose(ok))
    /\ WF_vars(SweepResume)
    /\ WF_vars(SweepExit)

(***************************************************************************)
(* The chunker of scripts/index-docs.ts. A text is taken as the sequence   *)
(* of sentences line 71 splits it into, a sentence as its length and       *)
(* whether it is whitespace only; strings are kept as their length and the *)
(* sentences they are made of, which is all chunkText looks at.            *)
(***************************************************************************)

CHUNK_SIZE == 1000
\* Declared at line 24; no line of the file reads it.
CHUNK_OVERLAP == 200

\* Lengths on both sides of CHUNK_SIZE, and sums of two that reach it exactly.
SentenceLengths == {2, 400, 500, 600, 1001}

\* A sentence that is not blank starts and ends with a character that is not
\* whitespace (whitespace at the start of the text or after an unpunctuated
\* last sentence, which trim() removes as well, is left out).
Sentences ==
    {[len |-> n, blank |-> FALSE] : n \in SentenceLengths}
    \cup {[len |-> n, blank |-> TRUE] : n \in {0, 2}}

\* text.split(/(?<=[.!?])\s+/): one sentence at least; the separator eats all
\* whitespace after the punctuation, so a blank sentence is either the whole
\* text (empty, or whitespace only) or the empty string after a text that
\* ends with punctuation and whitespace.
Texts ==
    {t \in UNION {[1..n -> Sentences] : n \in 1..MaxSentences} :
        \A k \in DOMAIN t :
            t[k].blank => (Len(t) = 1 \/ (k = Len(t) /\ t[k].len = 0))}

\* let currentChunk = ''
EmptyChunk == [length |-> 0, parts |-> <<>>]

\* A mutant: a new chunk starting empty, the sentence that overflowed dropped.
StartEmpty(sentences, i) == [length |-> 0, parts |-> <<>>]

\* currentChunk = sentence
StartWith(sentences, i) == [length |-> sentences[i].len, parts |-> <<i>>]

\* currentChunk += ' ' + sentence
Concat(sentences, currentChunk, i) ==
    [length |-> currentChunk.length + 1 + sentences[i].len,
     parts |-> Append(currentChunk.parts, i)]

RECURSIVE SumLen(_, _, _, _)
SumLen(sentences, parts, f, l) ==
    IF f > l THEN 0
    ELSE sentences[parts[f]].len + SumLen(sentences, parts, f + 1, l)

\* currentChunk.trim(): the blank sentences and the joining spaces at both
\* ends go; what is between the first and the last sentence that is not blank
\* stays, joining spaces included.
Trim(sentences, currentChunk) ==
    LET parts == currentChunk.parts
        nb == {k \in DOMAIN parts : ~sentences[parts[k]].blank}
    IN IF nb = {} THEN [length |-> 0, parts |-> <<>>]
       ELSE LET f == CHOOSE k \in nb : \A j \in nb : k <= j
                l == CHOOSE k \in nb : \A j \in nb : j <= k
            IN [length |-> SumLen(sentences, parts, f, l) + (l - f),
                parts |-> SubSeq(parts, f, l)]

\* The loop of chunkText from sentence i on, and the final flush.
RECURSIVE ChunkLoop(_, _, _, _)
ChunkLoop(sentences, i, chunks, currentChunk) ==
    IF i > Len(sentences)
    THEN IF currentChunk.length > 0
         THEN Append(chunks, Trim(sentences, currentChunk))
         ELSE chunks
    ELSE IF currentChunk.length + sentences[i].len > CHUNK_SIZE
    THEN ChunkLoop(sentences, i + 1,
                   Append(chunks, Trim(sentences, currentChunk)),
                   StartWith(sentences, i))
    ELSE ChunkLoop(sentences, i + 1, chunks, Concat(sentences, currentChunk, i))

chunkText(sentences) == ChunkLoop(sentences, 1, <<>>, EmptyChunk)

\* A text is given to chunkText.
ChunkInit ==
    /\ SessInit
    /\ srch = SrchIdle
    /\ chk \in {[sentences |-> t, chunks |-> <<>>, returned |-> FALSE] : t \in Texts}
    /\ idx = IdxIdle
    /\ sect = SectIdle
    /\ ntf = NtfIdle
    /\ leg = LegIdle

\* chunkText returns.
ChunkText ==
    /\ ~chk.returned
    /\ chk.sentences # <<>>
    /\ chk' = [chk EXCEPT !.chunks = chunkText(chk.sentences), !.returned = TRUE]
    /\ UNCHANGED <<sessVars, srch, idx, sect, ntf, leg>>

ChunkNext == ChunkText

ChunkSpec == ChunkInit /\ [][ChunkNext]_vars

(***************************************************************************)
(* The indexing script, scripts/index-docs.ts: main, createCollection and  *)
(* processFile, and the vector store they write to. The store is the       *)
(* environment: upsert overwrites the points of the ids it is given, all   *)
(* of them or none; createCollection of a collection that exists fails.    *)
(***************************************************************************)

Files == 1..MaxFiles

\* The documentation tree, unmodified between the runs: the text of a file
\* as its sentences. Odd files give one chunk, even files two.
Corpus(f) ==
    IF f % 2 = 1
    THEN <<[len |-> 400, blank |-> FALSE]>>
    ELSE <<[len |-> 600, blank |-> FALSE], [len |-> 500, blank |-> FALSE]>>

MaxChunksOfFile == 2
PointIds == Files \X (0..(MaxChunksOfFile - 1))

\* The files of a run: path.join(DOCS_DIR, argv.file), or what glob returns
\* for a section (any part of the tree, nothing included) or for the tree.
AllFiles == [f \in Files |-> f]
RunFiles(mode) ==
    CASE mode = "file" -> {<<f>> : f \in Files}
      [] mode = "section" -> {<<>>, AllFiles} \cup {<<f>> : f \in Files}
      [] OTHER -> {AllFiles}

\* size: 1536, distance: 'Cosine'
VectorSize == 1536
CreateArgs == [size |-> VectorSize, distance |-> "Cosine"]

\* The outcomes of qdrant.getCollection: the collection, a 404, or a failure
\* that says nothing about the collection (network, timeout, credentials).
GetResults(exists) == IF exists THEN {"ok", "error"} ELSE {"absent", "error"}

\* try { await getCollection } catch { await createCollection }: whether the
\* catch block runs.
CreateIsIssued(getResult) == getResult # "ok"

\* new Date().toISOString() of a run: later at every run.
Clock(run) == run

\* points.push({ id, content, metadata: {path, ..., lastUpdated}, embedding })
Payload(f, chunk, now) == [content |-> chunk, path |-> f, lastUpdated |-> now]

\* qdrant.upsert: the points of file f replace the ones with their ids.
Upserted(points, f, chunks, now) ==
    [id \in PointIds |->
        IF id[1] = f /\ id[2] < Len(chunks)
        THEN Payload(f, chunks[id[2] + 1], now)
        ELSE points[id]]

EmptyStore == [id \in PointIds |-> NoPoint]

IdxFrame == UNCHANGED <<sessVars, srch, chk, sect, ntf, leg>>

\* main() starts: argv is read; syncDocs is left out (argv.sync false).
Main(mode, files) ==
    /\ idx.pc \in {"idle", "done", "failed"}
    /\ Len(idx.hist) < MaxRuns
    /\ files \in RunFiles(mode)
    /\ idx' = [idx EXCEPT !.pc = "getCollection", !.mode = mode, !.files = files,
                          !.k = 0, !.i = 0, !.vectors = 0,
                          !.now = Clock(Len(idx.hist) + 1),
                          !.getResult = "none", !.createIssued = 0,
                          !.createArgs = <<>>, !.ensured = FALSE,
                          !.upserts = 0, !.indexed = {}, !.upsertFailed = {},
                          !.snap = idx.points]
    /\ IdxFrame

\* How a run ends: main returns, or its promise rejects and
\* main().catch(console.error) logs the error.
EndRun(ix, ok) ==
    [ix EXCEPT !.pc = IF ok THEN "done" ELSE "failed",
               !.hist = Append(@, [mode |-> ix.mode, files |-> ix.files, ok |-> ok])]

\* The next file of the loop, or the end of main.
NextFile(ix) ==
    IF ix.k < Len(ix.files)
    THEN LET none == Len(chunkText(Corpus(ix.files[ix.k + 1]))) = 0
         IN [ix EXCEPT !.pc = IF none THEN "upsert" ELSE "embed",
                       !.k = @ + 1, !.i = 0, !.vectors = 0,
                       !.upserts = IF none THEN @ + 1 ELSE @]
    ELSE EndRun(ix, TRUE)

\* createCollection(): getCollection answers.
GetCollectionReturn(r) ==
    /\ idx.pc = "getCollection"
    /\ r \in GetResults(idx.exists)
    /\ idx' = IF CreateIsIssued(r)
              THEN [idx EXCEPT !.pc = "createCollection", !.getResult = r,
                               !.createIssued = @ + 1, !.createArgs = CreateArgs]
              ELSE NextFile([idx EXCEPT !.getResult = r, !.ensured = TRUE])
    /\ IdxFrame

\* qdrant.createCollection answers: the store refuses when the collection
\* exists, and main rejects on every failure.
CreateCollectionReturn(ok) ==
    /\ idx.pc = "createCollection"
    /\ ok => ~idx.exists
    /\ idx' = IF ok
              THEN NextFile([idx EXCEPT !.exists = TRUE, !.ensured = TRUE])
              ELSE EndRun(idx, FALSE)
    /\ IdxFrame

\* A mutant: processFile writing the point of each chunk as soon as it is
\* embedded, instead of collecting the points for one upsert.
EmbeddingReturnWritesEach(ok) ==
    /\ idx.pc = "embed"
    /\ LET f == idx.files[idx.k]
           chunks == chunkText(Corpus(f))
           written == [id \in PointIds |->
                          IF id = <<f, idx.i>>
                          THEN Payload(f, chunks[idx.i + 1], idx.now)
                          ELSE idx.points[id]]
       IN idx' = IF ~ok THEN EndRun(idx, FALSE)
                 ELSE IF idx.i + 1 < Len(chunks)
                 THEN [idx EXCEPT !.i = @ + 1, !.vectors = @ + 1,
                                  !.points = written]
                 ELSE [idx EXCEPT !.pc = "upsert", !.i = @ + 1, !.vectors = @ + 1,
                                  !.upserts = @ + 1, !.points = written]
    /\ IdxFrame

\* processFile: generateEmbedding of chunk i answers; after the last chunk
\* the upsert is issued.
EmbeddingReturn(ok) ==
    /\ idx.pc = "embed"
    /\ LET chunks == chunkText(Corpus(idx.files[idx.k]))
       IN idx' = IF ~ok THEN EndRun(idx, FALSE)
                 ELSE IF idx.i + 1 < Len(chunks)
                 THEN [idx EXCEPT !.i = @ + 1, !.vectors = @ + 1]
                 ELSE [idx EXCEPT !.pc = "upsert", !.i = @ + 1, !.vectors = @ + 1,
                                  !.upserts = @ + 1]
    /\ IdxFrame

\* qdrant.upsert answers: processFile returns to the loop of main, or throws
\* through it.
UpsertReturn(ok) ==
    /\ idx.pc = "upsert"
    /\ LET f == idx.files[idx.k]
           chunks == chunkText(Corpus(f))
       IN idx' = IF ok
                 THEN NextFile([idx EXCEPT
                                  !.points = Upserted(idx.points, f, chunks, idx.now),
                                  !.indexed = @ \cup {f}])
                 ELSE EndRun([idx EXCEPT !.upsertFailed = @ \cup {f}], FALSE)
    /\ IdxFrame

\* The vector store before the first run: with the collection or without.
IndexInit ==
    /\ SessInit
    /\ srch = SrchIdle
    /\ chk = ChkIdle
    /\ idx \in {[IdxIdle EXCEPT !.exists = e, !.points = EmptyStore,
                                !.snap = EmptyStore] : e \in BOOLEAN}
    /\ sect = SectIdle
    /\ ntf = NtfIdle
    /\ leg = LegIdle

IndexNext ==
    \/ \E mode \in {"file", "section", "all"} :
           \E files \in RunFiles(mode) : Main(mode, files)
    \/ \E r \in {"ok", "absent", "error"} : GetCollectionReturn(r)
    \/ \E ok \in BOOLEAN : CreateCollectionReturn(ok)
    \/ \E ok \in BOOLEAN : EmbeddingReturn(ok)
    \/ \E ok \in BOOLEAN : UpsertReturn(ok)

IndexSpec == IndexInit /\ [][IndexNext]_vars

(***************************************************************************)
(* The section resource, docs://{section}: the handler registered on the   *)
(* shared server and the one registered by getServer(). The collection is  *)
(* the environment: a scroll answers the first `limit` points that match   *)
(* the filter.                                                             *)
(***************************************************************************)

Sections == {"", "jitosol"}

\* limit: 10
ScrollLimit == 10

\* The collections a read can meet: so many chunks by section.
Indexes == [Sections -> 0..MaxSectionChunks]

\* uri.pathname.split("/"): the segments of the path; the pathname is empty
\* or begins with a slash, so the first segment is empty.
MaxSegments == 3
Pathnames ==
    {p \in UNION {[1..n -> Sections] : n \in 1..MaxSegments} : p[1] = ""}

\* uri.pathname.split("/").pop() || ""
PathSection(pathname) ==
    LET popped == pathname[Len(pathname)]
    IN IF popped = "" THEN "" ELSE popped

\* A chunk of the collection: the k-th of its section.
Point(section, k) ==
    [content |-> <<section, k>>, metadata |-> [section |-> section]]

\* qdrant.scroll with the filter metadata.section = section and the limit:
\* one page, the first points that match.
Scroll(index, section, limit) ==
    [k \in 1..(IF index[section] < limit THEN index[section] ELSE limit) |->
        Point(section, k)]

\* (results.points || []).map((point) => ({ content, metadata }))
SectionDocs(points) ==
    [k \in 1..Len(points) |->
        [content |-> points[k].content, metadata |-> points[k].metadata]]

SectFrame == UNCHANGED <<sessVars, srch, chk, idx, ntf, leg>>

\* resources/read of docs://...: the handler takes the section from the uri
\* and issues the scroll.
SectRead(h, pathname) ==
    /\ sect.pc \in {"idle", "done"}
    /\ h \in Handlers
    /\ pathname \in Pathnames
    /\ sect' = [sect EXCEPT !.pc = "scroll", !.handler = h, !.pathname = pathname,
                            !.pathSection = PathSection(pathname),
                            !.isError = FALSE, !.docs = <<>>]
    /\ SectFrame

\* The scroll answers: the handler returns the entries as JSON, or throws
\* "Failed to fetch section ...".
ScrollReturn(ok) ==
    /\ sect.pc = "scroll"
    /\ sect' = IF ok
               THEN [sect EXCEPT !.pc = "done",
                        !.docs = SectionDocs(Scroll(sect.index, sect.pathSection, ScrollLimit))]
               ELSE [sect EXCEPT !.pc = "done", !.isError = TRUE]
    /\ SectFrame

SectionInit ==
    /\ SessInit
    /\ srch = SrchIdle
    /\ chk = ChkIdle
    /\ idx = IdxIdle
    /\ sect \in {[SectIdle EXCEPT !.index = ix] : ix \in Indexes}
    /\ ntf = NtfIdle
    /\ leg = LegIdle

SectionNext ==
    \/ \E h \in Handlers : \E pathname \in Pathnames : SectRead(h, pathname)
    \/ \E ok \in BOOLEAN : ScrollReturn(ok)

SectionSpec == SectionInit /\ [][SectionNext]_vars

\* The search tool alone: calls of either handler, one at a time.
SearchNext ==
    \/ \E h \in Handlers, key \in BOOLEAN : SearchStart(h, key)
    \/ \E ok \in BOOLEAN : EmbedReturn(ok)
    \/ \E ok \in BOOLEAN, c \in Candidates : StoreReturn(ok, c)
    \/ \E r \in Replies : RerankReturn(r)

SearchSpec == Init /\ [][SearchNext]_vars

(***************************************************************************)
(* The claims about the session map.                                       *)
(***************************************************************************)

\* The handler run changed nothing but its answer.
NoMutation ==
    /\ transports' = transports /\ tr' = tr /\ nextId' = nextId
    /\ inflight' = inflight /\ delPending' = delPending /\ evicted' = evicted

InMap(id) == id \in Ids /\ transports[id] # 0

\* The session id carried by the request a step handled: every handler run
\* records it in `last`, so a statement about the requests bearing an id h is
\* a statement about the steps with Carried = h.
Carried == last'.hdr
\* The step is a handler run of endpoint ep, which `last` records as well.
OnEndpoint(ep) == last'.ep = ep

\* C1: a request whose session id is live under one transport kind, arriving
\* on the endpoint of the other kind (/mcp for an SSE id, /messages for a
\* Streamable HTTP id), is answered with the 400 "different transport
\* protocol" error, is not handed to the bound transport, and leaves the
\* session map and the transports as they were.
C1_CrossTransportRejected ==
    [][LET h == Carried IN
          /\ Lookup(h) = "sse" =>
                \A m \in Methods, i \in BOOLEAN :
                    McpRequest(m, h, i) =>
                        last' = Event("mcp", h, "400_transport") /\ NoMutation
          /\ Lookup(h) = "http" =>
                (MessagesPost(h) =>
                    last' = Event("messages", h, "400_transport") /\ NoMutation)
      ]_vars

\* A Streamable HTTP id was just rejected on /messages while an SSE session
\* is live too.
C1_Witness ==
    /\ last.ep = "messages" /\ last.res = "400_transport"
    /\ Lookup(last.hdr) = "http"
    /\ \E a \in Ids : Lookup(a) = "sse"

\* C2: a request bearing a non-empty session id that is not in the live map
\* is rejected with a 400 error on /mcp (any method, any body) and on
\* /messages; no transport handles it, no transport is created and the map is
\* unchanged. (A step that records an answer of /mcp is a run of its handler
\* for some method and body, and likewise for /messages.)
C2_UnknownIdRejected ==
    [][LET h == Carried IN
          (h # NoId /\ Lookup(h) \notin {"sse", "http"}) =>
             /\ OnEndpoint("mcp") =>
                    /\ \E m \in Methods, i \in BOOLEAN : McpRequest(m, h, i)
                    /\ last'.res \in {"400_session", "400_transport"}
                    /\ NoMutation
             /\ OnEndpoint("messages") =>
                    /\ MessagesPost(h)
                    /\ last' = Event("messages", h, "400_transport")
                    /\ NoMutation
      ]_vars

\* An id that is not in the map was just rejected on /mcp, with a transport
\* slot free (a session could have been created) and another session live.
C2_Witness ==
    /\ last.ep = "mcp" /\ last.res = "400_session"
    /\ last.hdr \in Ids /\ ~InMap(last.hdr)
    /\ FreeSlots # {}
    /\ Keys # {}

\* C3: an id enters the map only by a handshake that carried no session id:
\* GET /sse, or on /mcp the initialize POST without a session id, whose new
\* transport stores its id when it is initialized. Every other /mcp request
\* without a session id (GET, DELETE, POST of something else) is answered 400
\* and creates nothing.
C3_OnlyHandshakeCreates ==
    [][/\ (OnEndpoint("mcp") /\ Carried = NoId) =>
             \A m \in Methods, i \in BOOLEAN :
                 (~(m = "POST" /\ i) /\ McpRequest(m, NoId, i)) =>
                     last' = Event("mcp", NoId, "400_session") /\ NoMutation
       /\ (OnEndpoint("mcp") /\ tr' # tr) =>
             \A m \in Methods, i \in BOOLEAN :
                 McpRequest(m, Carried, i) =>
                     (Carried = NoId /\ m = "POST" /\ i)
       /\ \A id \in Ids :
             (~InMap(id) /\ transports'[id] # 0) =>
                 \/ last' = Event("sse", NoId, "connected")
                 \/ /\ last' = Event("mcp_init", NoId, "initialized")
                    /\ tr[transports'[id]] = [kind |-> "http", sid |-> 0, st |-> "new"]
      ]_vars

\* A Streamable HTTP session was just stored by its initialization.
C3_Witness ==
    /\ last = Event("mcp_init", NoId, "initialized")
    /\ \E id \in Ids : Lookup(id) = "http" /\ tr[transports[id]].sid = id

\* Each id of the map is bound to one transport object, which carries that id
\* and is of one kind, and no other transport object carries it.
C4_Binding ==
    \A id \in Ids :
        InMap(id) =>
            /\ tr[transports[id]].sid = id
            /\ tr[transports[id]].kind \in {"sse", "http"}
            /\ \A s \in Slots : tr[s].sid = id => s = transports[id]

\* C4: in every reachable state each id of the map is bound to one transport
\* object, which carries that id and is of one kind, no two transport objects
\* carry the same id, and while an id stays in the map its transport (so its
\* kind) does not change: under initialize, route, close and shutdown events.
C4_OneKindPerId ==
    /\ []C4_Binding
    /\ [][\A id \in Ids :
             (InMap(id) /\ transports'[id] # 0) =>
                 /\ transports'[id] = transports[id]
                 /\ tr'[transports'[id]].kind = tr[transports[id]].kind
         ]_vars

\* Both kinds are in the map while the sweep is suspended at a close().
C4_Witness ==
    /\ sweep.pc = "await"
    /\ \E a, b \in Ids : Lookup(a) = "sse" /\ Lookup(b) = "http"

\* A close event of transport s: the connection close of an SSE session, the
\* close() of a DELETE, a transport close.
CloseOf(s) == ResClose(s) \/ DeleteClose(s) \/ HttpTransportClose(s)

\* C5: closing session A, also while a request of session B is suspended,
\* leaves B's entry and B's suspended requests as they were, and a request
\* bearing the id of a session in the map, on the endpoint of its kind, is
\* routed to its transport.
C5_Isolation ==
    [][/\ ~OnEndpoint("mcp") =>
             \A s \in Slots :
                 (tr[s].sid = Carried /\ CloseOf(s)) =>
                     /\ \A id \in Ids \ {tr[s].sid} : transports'[id] = transports[id]
                     /\ inflight' = inflight
       /\ LET b == Carried IN
             /\ (OnEndpoint("mcp") /\ Lookup(b) = "http") =>
                   \A r \in Requests :
                       McpRequest(r[1], b, r[2]) =>
                           last' = Event("mcp", b, "routed") /\ transports' = transports
             /\ (OnEndpoint("messages") /\ Lookup(b) = "sse") =>
                   (MessagesPost(b) =>
                       last' = Event("messages", b, "routed") /\ transports' = transports)
      ]_vars

\* Session A was just closed and evicted while a request of session B, which
\* is still in the map, is suspended.
C5_Witness ==
    /\ last.ep \in {"close", "conn_close"}
    /\ last.hdr \in evicted
    /\ \E b \in Ids \ {last.hdr} : InMap(b) /\ inflight[transports[b]] > 0

\* No evicted id is in the map, and no two transports carry the same id.
C6_NoTwoAlike ==
    /\ \A id \in evicted : ~InMap(id)
    /\ \A s, t \in Slots : (s # t /\ tr[s].sid # 0) => tr[s].sid # tr[t].sid

\* C6: an id that was evicted from the map is never in it again; every later
\* request bearing it is answered 400 on /mcp and on /messages; and no two
\* transports, open or closed, ever carry the same id.
C6_NeverReused ==
    /\ []C6_NoTwoAlike
    /\ [][LET id == Carried IN
             id \in evicted =>
                 /\ \A m \in Methods, i \in BOOLEAN :
                        McpRequest(m, id, i) =>
                            last' = Event("mcp", id, "400_session") /\ NoMutation
                 /\ MessagesPost(id) =>
                        last' = Event("messages", id, "400_transport") /\ NoMutation
         ]_vars

\* An evicted id was just refused on /mcp while a session with an id minted
\* after it is live.
C6_Witness ==
    /\ last.ep = "mcp" /\ last.res = "400_session"
    /\ last.hdr \in evicted
    /\ \E id \in Ids : id > last.hdr /\ InMap(id)

\* The transports that have a session id.
Sessions == {s \in Slots : tr[s].sid # 0}
Gone(s) == transports[tr[s].sid] # s

\* C7 as claimed: after a DELETE was routed, after a connection close event,
\* after a transport close, the id is eventually absent from the map, for
\* both transport kinds.
C7_Original ==
    \A s \in Slots :
        (/\ tr[s].sid # 0
         /\ \/ delPending[s]
            \/ tr[s].st = "ending"
            \/ last.ep \in {"close", "conn_close"} /\ last.hdr = tr[s].sid)
        ~> (tr[s].sid # 0 /\ Gone(s))

\* C7, amended: after a DELETE was routed to a Streamable HTTP session, after
\* a transport close of a session of either kind, and after the connection
\* close of an SSE session, the id is eventually absent from the map. (The
\* close of a connection of a Streamable HTTP session evicts nothing.)
C7_CloseEvicts ==
    \A s \in Slots :
        (/\ tr[s].sid # 0
         /\ \/ delPending[s]
            \/ tr[s].st = "ending"
            \/ last = Event("close", tr[s].sid, "-")
            \/ last = Event("conn_close", tr[s].sid, "-") /\ tr[s].kind = "sse")
        ~> (tr[s].sid # 0 /\ Gone(s))

\* The close() of a routed DELETE has just evicted a Streamable HTTP session.
C7_Witness ==
    /\ last.ep = "close" /\ last.hdr \in evicted
    /\ \E s \in Slots : /\ tr[s] = [kind |-> "http", sid |-> last.hdr, st |-> "closed"]
                        /\ ~delPending[s]

\* C8: a close event for a session that is no longer in the map (a second
\* onclose, the connection close after the sweep or a close() removed the
\* entry, the sweep's delete after onclose removed it) leaves the whole map
\* as it was.
C8_CloseIdempotent ==
    [][/\ \A s \in Sessions :
             Gone(s) =>
                 ((ResCloseDo(s) \/ DeleteCloseDo(s) \/ HttpTransportCloseDo(s))
                      => transports' = transports)
       /\ \A s \in Slots \ Sessions : HttpTransportCloseDo(s) => transports' = transports
       /\ (SweepResume /\ ~InMap(sweep.cur)) => transports' = transports
      ]_vars

\* An SSE session the sweep closed and deleted got its 'close' event as
\* well, and another session is still in the map.
C8_Witness ==
    /\ \E s \in Slots :
          /\ tr[s].kind = "sse" /\ tr[s].st = "closed"
          /\ tr[s].sid \in sweep.tried \ sweep.failed
          /\ sweep.cur # tr[s].sid
    /\ Keys # {}

\* C9 as claimed, its first part: when the sweep has exited, close was
\* attempted on every session that was in the map when the sweep started.
C9_Original == sweep.pc = "exited" => sweep.start \subseteq sweep.tried

\* Only attempted closes fail, and at exit every session of the start was
\* tried or had been evicted by its own close event.
C9_AtExit ==
    /\ sweep.failed \subseteq sweep.tried
    /\ sweep.pc = "exited" =>
          \A id \in sweep.start : id \in sweep.tried \/ (id \in evicted /\ ~InMap(id))

\* C9, amended: close is attempted on every session that is in the map when
\* the sweep starts and is still in it when the loop reaches it (a session
\* evicted by its own close event while the sweep is suspended is skipped);
\* a close that fails is logged and the loop goes on to the remaining
\* sessions; and the sweep reaches process exit.
C9_Sweep ==
    /\ []C9_AtExit
    /\ (sweep.pc # "idle") ~> (sweep.pc = "exited")

\* The sweep has exited after a close that failed, and close was attempted on
\* a session that comes after the failing one.
C9_Witness ==
    /\ sweep.pc = "exited"
    /\ \E a \in sweep.failed, b \in sweep.tried : b > a

(***************************************************************************)
(* The claims about the search tool.                                       *)
(***************************************************************************)

\* C10: whenever the similarity search of a call answered and the rerank
\* provider is unreachable, answers with a status that is not OK, or no
\* rerank key is configured, the call returns exactly the candidates of the
\* similarity search, in its order, without the error flag.
C10_RerankFallback ==
    (/\ srch.pc = "done" /\ srch.found
     /\ \/ ~srch.key
        \/ srch.reply.status \in {"unreachable", "notok"})
    => srch.out = [isError |-> FALSE, items |-> srch.results]

\* C11: when the embedding call or the vector-store search of a search call
\* fails, the handler returns a response with isError = TRUE and no results;
\* the embedding provider was called once, the vector store not at all after
\* an embedding failure (once when it is the one that failed), the rerank
\* provider never, and the handler makes no further provider call for it.
C11_ProviderFailureFlagged ==
    [][/\ EmbedReturn(FALSE) =>
             /\ srch'.pc = "done"
             /\ srch'.out.isError /\ srch'.out.items = <<>>
             /\ srch'.embedCalls = 1 /\ srch'.storeCalls = 0
             /\ srch'.rerankCalls = 0
       /\ \A c \in Candidates :
             StoreReturn(FALSE, c) =>
                 /\ srch'.pc = "done"
                 /\ srch'.out.isError /\ srch'.out.items = <<>>
                 /\ srch'.embedCalls = 1 /\ srch'.storeCalls = 1
                 /\ srch'.rerankCalls = 0
       /\ (srch.pc = "done" /\ srch'.pc # "done") =>
             (srch'.pc = "embed" /\ srch'.embedCalls = 1 /\ srch'.storeCalls = 0)
      ]_vars

\* The vector-store search of a call failed after its embedding succeeded.
C11_Witness ==
    /\ srch.pc = "done" /\ ~srch.found
    /\ srch.storeCalls = 1 /\ srch.embedCalls = 1
    /\ srch.out.isError

\* The entries of a list that are made of document d with score x.
Occurrences(items, d, x) ==
    Cardinality({k \in DOMAIN items : items[k].doc = d /\ items[k].rerankScore = x})

\* C12: when a rerank key is configured, there are two candidates or more and
\* the provider answers successfully (with indices of candidates), the
\* returned list is in non-increasing order of rerankScore and its entries
\* are the candidates the reply names, each with the relevance score the reply
\* gives for its index; and with 0 or 1 candidate the rerank provider is not
\* called at all.
C12_RerankOrder ==
    /\ (/\ srch.pc = "done" /\ srch.key /\ Len(srch.results) > 1
        /\ srch.reply.status = "ok"
        /\ \A j \in DOMAIN srch.reply.results :
               srch.reply.results[j].index < Len(srch.results))
       => /\ ~srch.out.isError
          /\ \A k \in 1..(Len(srch.out.items) - 1) :
                 srch.out.items[k].rerankScore >= srch.out.items[k + 1].rerankScore
          /\ Len(srch.out.items) = Len(srch.reply.results)
          /\ \A d \in Docs, x \in 1..MaxScore :
                 Occurrences(srch.out.items, d, x) =
                     Cardinality({j \in DOMAIN srch.reply.results :
                         /\ srch.results[srch.reply.results[j].index + 1].doc = d
                         /\ srch.reply.results[j].relevance_score = x})
    /\ (srch.found /\ Len(srch.results) <= 1) => srch.rerankCalls = 0

(***************************************************************************)
(* The claims about the indexing script.                                   *)
(***************************************************************************)

\* The ids of the points in the collection.
Stored(points) == {id \in PointIds : points[id] # NoPoint}

\* The last two runs indexed the same single file and both went through.
SameFileTwice ==
    /\ idx.pc = "done"
    /\ Len(idx.hist) >= 2
    /\ LET n == Len(idx.hist)
       IN /\ idx.hist[n].mode = "file"
          /\ idx.hist[n - 1].mode = "file"
          /\ idx.hist[n].files = idx.hist[n - 1].files
          /\ idx.hist[n - 1].ok

\* C17: when the same unmodified file has been indexed twice in succession,
\* the collection holds the same ids after the second run as after the first,
\* the same number of points, and under each id of the file the same stored
\* content and payload.
C17_IdempotentIndexing ==
    SameFileTwice =>
        /\ Stored(idx.points) = Stored(idx.snap)
        /\ Cardinality(Stored(idx.points)) = Cardinality(Stored(idx.snap))
        /\ \A id \in Stored(idx.points) : idx.points[id] = idx.snap[id]

\* C18: when a run over a section or over the whole tree has ended and the
\* upsert of one of its files failed, every other file of the run has been
\* processed and indexed.
C18_FailureAbortsOneFile ==
    (/\ idx.pc \in {"done", "failed"}
     /\ idx.mode # "file"
     /\ idx.upsertFailed # {})
        => \A k \in 1..Len(idx.files) :
               idx.files[k] \notin idx.upsertFailed => idx.files[k] \in idx.indexed

\* C19: in every run createCollection is issued if and only if the existence
\* check answered that the collection does not exist, never after another
\* failure of the check, always with vector size 1536 and cosine distance, and
\* no upsert is issued before the ensure step has completed.
C19_EnsureCollection ==
    /\ idx.createIssued > 0 <=> idx.getResult = "absent"
    /\ idx.createIssued > 0 =>
           idx.createArgs = [size |-> VectorSize, distance |-> "Cosine"]
    /\ idx.upserts > 0 => idx.ensured

(***************************************************************************)
(* The claim about the section resource.                                   *)
(***************************************************************************)

\* The section a read asks for: the last segment of the path of its uri.
Requested == sect.pathname[Len(sect.pathname)]

\* C20: a read of the section resource that succeeds returns an entry
\* {content, metadata} for every chunk of the collection whose
\* metadata.section is the requested section and for no other chunk, whatever
\* the number of chunks of that section.
C20_WholeSection ==
    (sect.pc = "done" /\ ~sect.isError) =>
        {sect.docs[k] : k \in 1..Len(sect.docs)}
            = {Point(Requested, k) : k \in 1..sect.index[Requested]}

(***************************************************************************)
(* The claims about the chunker.                                           *)
(***************************************************************************)

\* C13: for every text that gives two chunks or more, each chunk after the
\* first begins with text carried forward from the end of the chunk before
\* it: its first sentence is one of the sentences of that chunk, never only
\* the sentence that overflowed.
C13_Overlap ==
    chk.returned =>
        \A k \in 2..Len(chk.chunks) :
            /\ chk.chunks[k].parts # <<>>
            /\ \E j \in DOMAIN chk.chunks[k - 1].parts :
                   chk.chunks[k - 1].parts[j] = chk.chunks[k].parts[1]

\* C14: no chunk chunkText returns is longer than CHUNK_SIZE characters,
\* joining spaces counted, unless it consists of one sentence that alone is
\* longer than CHUNK_SIZE.
C14_SizeBound ==
    chk.returned =>
        \A k \in DOMAIN chk.chunks :
            chk.chunks[k].length > CHUNK_SIZE =>
                /\ Len(chk.chunks[k].parts) = 1
                /\ chk.sentences[chk.chunks[k].parts[1]].len > CHUNK_SIZE

\* C15: every chunk chunkText returns is a non-empty string, for every text:
\* the empty text, a text of whitespace only and a text whose first sentence
\* alone is longer than CHUNK_SIZE included.
C15_NonEmptyChunks ==
    chk.returned => \A k \in DOMAIN chk.chunks : chk.chunks[k].length > 0

\* The sentences of the chunks from chunk k on, in order.
RECURSIVE PartsFrom(_, _)
PartsFrom(chunks, k) ==
    IF k > Len(chunks) THEN <<>> ELSE chunks[k].parts \o PartsFrom(chunks, k + 1)

\* The sentences of a text that are not blank, from sentence i on, in order.
RECURSIVE ProseFrom(_, _)
ProseFrom(sentences, i) ==
    IF i > Len(sentences) THEN <<>>
    ELSE (IF sentences[i].blank THEN <<>> ELSE <<i>>) \o ProseFrom(sentences, i + 1)

\* C16: for every text, the sentences of all chunks taken in chunk order are
\* the sentences of the text in their order: none dropped, duplicated,
\* reordered or split across two chunks.
C16_Reconstruction ==
    chk.returned => PartsFrom(chk.chunks, 1) = ProseFrom(chk.sentences, 1)

\* Three sentences came back as two chunks, the second one of two sentences.
C16_Witness ==
    /\ chk.returned
    /\ Len(chk.chunks) = 2
    /\ chk.chunks[1].parts = <<1>> /\ chk.chunks[2].parts = <<2, 3>>

(***************************************************************************)
(* Further claims about the endpoints.                                     *)
(***************************************************************************)

\* C22: a POST /messages whose session id is unknown or missing (no entry in
\* the map under it) is answered with the invalid-or-missing-session error
\* 'No transport found for sessionId', not with the error of an id that is
\* bound to the other transport kind.
C22_UnknownIdOnMessages ==
    (last.ep = "messages" /\ Lookup(last.hdr) = "none") =>
        last.res = "400_no_transport"

(***************************************************************************)
(* The claims about start-notification-stream.                             *)
(***************************************************************************)

\* C23: once the session of a call of start-notification-stream is closed,
\* the task attempts no further notification: it ends instead of running on
\* to its count.
C23_BoundToSession == ~ntf.late

\* C24: a call with count = n > 0 attempts exactly n notifications and then
\* returns, and a call with count = 0 attempts exactly 100 notifications and
\* then returns: never more, and at the return no fewer.
C24_AttemptCount ==
    LET n == IF ntf.count = 0 THEN DocumentedCount ELSE ntf.count
    IN ntf.pc # "idle" =>
           /\ ntf.counter <= n
           /\ ntf.pc = "done" => ntf.counter = n

(***************************************************************************)
(* A further claim about the indexing script.                              *)
(***************************************************************************)

\* The file processFile is working on, and its chunks.
CurFile == idx.files[idx.k]
CurChunks == chunkText(Corpus(CurFile))

\* C25: within the indexing of one file the chunks are embedded in increasing
\* chunk-index order, one upsert is issued for the file and only after every
\* chunk has been embedded, and it alone writes points; when an embedding
\* fails no point of the file is written and the collection stays as it was.
C25_EmbedThenOneUpsert ==
    /\ [](idx.pc = "upsert" =>
              /\ idx.vectors = Len(CurChunks)
              /\ idx.upserts = idx.k)
    /\ [](idx.pc = "embed" =>
              /\ idx.i = idx.vectors /\ idx.i < Len(CurChunks)
              /\ idx.upserts = idx.k - 1)
    /\ [][/\ idx.pc = "embed" =>
               /\ idx'.points = idx.points
               /\ idx'.pc = "embed" => idx'.k = idx.k /\ idx'.i = idx.i + 1
               /\ idx'.pc = "failed" =>
                      /\ CurFile \notin idx'.indexed
                      /\ idx'.upserts = idx.k - 1
          /\ idx'.points # idx.points =>
               /\ idx.pc = "upsert"
               /\ idx'.points = Upserted(idx.points, CurFile, CurChunks, idx.now)
         ]_vars

\* The embedding of the second chunk of a file failed after the first one
\* had been embedded, in a run that had indexed another file before: that
\* file's points are in the collection, none of the failing file's.
C25_Witness ==
    /\ idx.pc = "failed"
    /\ idx.k = 2 /\ idx.i = 1 /\ idx.vectors = 1
    /\ idx.upsertFailed = {}
    /\ idx.indexed = {idx.files[1]}
    /\ \A id \in PointIds : id[1] = idx.files[2] => idx.points[id] = NoPoint
    /\ \E id \in PointIds : id[1] = idx.files[1] /\ idx.points[id] # NoPoint

(***************************************************************************)
(* A further claim about the search tool.                                  *)
(***************************************************************************)

\* The candidates of a list of results, as a bag: every candidate with the
\* number of times it is in the list.
Times(items, d) == Cardinality({k \in DOMAIN items : items[k].doc = d})

\* C26: when the rerank provider answered successfully, the search is not
\* turned into an error-flagged response and the list returned holds every
\* similarity-search candidate exactly once and nothing else, whatever
\* indices the reply holds.
C26_RerankPermutation ==
    (srch.pc = "done" /\ srch.reply.status = "ok") =>
        /\ ~srch.out.isError
        /\ Len(srch.out.items) = Len(srch.results)
        /\ \A d \in Docs : Times(srch.out.items, d) = Times(srch.results, d)

(***************************************************************************)
(* The claims about the servers and the responses.                         *)
(***************************************************************************)

\* C27: no McpServer is connected to more than one transport: the transports
\* connected to the server of the module, over /sse and /mcp together, are
\* never more than one.
C27_OneTransportPerServer ==
    Cardinality(leg.connected) + leg.https <= 1

\* C28: a handler run of /mcp or /messages that has returned has handed the
\* request to the transport of its session or has sent an error response
\* itself.
C28_AlwaysAnswered ==
    leg.ran \in {"mcp", "messages"} => leg.handed \/ leg.responded

(***************************************************************************)
(* A further claim about the session map.                                  *)
(***************************************************************************)

\* The slots of the Streamable HTTP transports.
HttpSlots == {s \in Slots : tr[s].kind = "http"}

\* Every Streamable HTTP transport the map holds has been initialized and
\* has not been closed, and one whose initialization failed, or has not
\* happened yet, has no id and no entry.
C29_LiveOnly ==
    /\ \A id \in Ids :
           (InMap(id) /\ transports[id] \in HttpSlots) =>
               tr[transports[id]] = [kind |-> "http", sid |-> id, st |-> "open"]
    /\ \A s \in HttpSlots :
           tr[s].st \in {"new", "failed"} =>
               /\ tr[s].sid = 0
               /\ \A id \in Ids : transports[id] # s

\* C29: a Streamable HTTP session is in the map only between its
\* onsessioninitialized callback and its close: its entry is made by the
\* initialization of its own new transport and by nothing else, a transport
\* whose initialize request fails before an id is assigned never gets an
\* entry, and the onclose handler removes the entry of its own session id and
\* leaves every other entry as it was.
C29_MapOwnsHttpSessions ==
    /\ []C29_LiveOnly
    /\ [][/\ \A id \in Ids :
               (~InMap(id) /\ transports'[id] \in HttpSlots) =>
                   /\ tr[transports'[id]] = [kind |-> "http", sid |-> 0, st |-> "new"]
                   /\ tr'[transports'[id]] = [kind |-> "http", sid |-> id, st |-> "open"]
          /\ \A s \in HttpSlots :
               (DeleteCloseDo(s) \/ HttpTransportCloseDo(s)) =>
                   /\ \A id \in Ids \ {tr[s].sid} : transports'[id] = transports[id]
                   /\ tr[s].sid # 0 => transports'[tr[s].sid] = 0
         ]_vars

\* One transport failed its initialization and another one, which had been
\* in the map, was closed and its entry removed.
C29_Witness ==
    \E s, t \in HttpSlots :
        /\ tr[s].st = "failed" /\ tr[s].sid = 0
        /\ tr[t].st = "closed" /\ tr[t].sid \in evicted
        /\ ~InMap(tr[t].sid)

====
